---- MODULE Spec2Model ----
(***************************************************************************)
(* Model of the render-and-merge orchestration of modal_manim.py:          *)
(* compile_manim_animation, compile_manim_animation_inline,                *)
(* merge_scene_videos and the two web endpoints.  One call runs at a time; *)
(* pc is its position in the handler.  The renderer, FFmpeg, the network   *)
(* and the filesystem are the environment: their outcomes are drawn from   *)
(* small sets.                                                             *)
(***************************************************************************)
EXTENDS Integers, Sequences, FiniteSets, TLC

\* ------------------------------------------------------------------ bounds
MaxCalls == 2      \* calls made one after the other
MaxLen == 3        \* longest artifact the renderer or FFmpeg writes, in bytes
MaxUrls == 3       \* longest video_urls list

\* ------------------------------------------------- environment value sets
ByteVals == {0, 173}
RECURSIVE BytesUpTo(_)
BytesUpTo(n) ==
  IF n = 0 THEN {<<>>}
  ELSE BytesUpTo(n - 1) \cup
       {Append(s, b) : s \in {t \in BytesUpTo(n - 1) : Len(t) = n - 1}, b \in ByteVals}
Contents == BytesUpTo(MaxLen)

Codes == {"", "from manim import *"}
ClassNames == {"Scene", "Demo"}
Qualities == {"low_quality", "medium_quality", "high_quality", "", "extreme"}
Stdouts == {"out"}
Stderrs == {"", "err"}
ExcMessages == {"boom"}

\* the network: what each location serves
Urls == {"u0", "u1"}
Remote == [u \in Urls |-> IF u = "u0" THEN <<>> ELSE <<0, 173>>]
RECURSIVE ListsUpTo(_)
ListsUpTo(n) ==
  IF n = 0 THEN {<<>>}
  ELSE ListsUpTo(n - 1) \cup
       {Append(s, u) : s \in {t \in ListsUpTo(n - 1) : Len(t) = n - 1}, u \in Urls}
UrlLists == ListsUpTo(MaxUrls)

\* ---------------------------------------------------------------- timeouts
SubprocessTimeout == 240
FunctionTimeout == 300
\* seconds one urlopen(url).read() can take: urlopen is given no timeout, so
\* the last value stands for a server that has not answered when the
\* function's own limit is reached
DownloadSeconds == {1, 61, FunctionTimeout}

\* ------------------------------------------------------------------- state
VARIABLES
  pc,            \* position of the running call
  endpoint,      \* web endpoint the call came through, or "none"
  fn,            \* pipeline function running, or "none"
  request_data,  \* the endpoint's request dictionary
  python_code, class_name, quality,   \* arguments of the render pipeline
  video_urls, add_transitions,        \* arguments of the merge pipeline
  elapsed,       \* time.time() - start_time
  calls,         \* calls started so far
  temp_dir,      \* number of this call's TemporaryDirectory, 0 when none
  live,          \* temporary directories that exist
  files,         \* contents of this call's temporary directory: path -> file
  cmd,           \* the subprocess command line
  proc,          \* the CompletedProcess: returncode, stdout, stderr
  video_files,   \* merge: the local files downloaded so far, in order
  video_file,    \* path of the located artifact
  written,       \* what the subprocess left in the directory when it ended
  raised,        \* the exception raised inside the pipeline, or "none"
  endpoint_raised, \* a statement of the endpoint itself raised
  events,        \* effects of this call on the outside world, in order
  result,        \* the pipeline's return value
  response,      \* the web endpoint's return value
  escaped        \* an exception propagated out of the call

\* what a call is entered with; no step of the call changes it
args == <<endpoint, fn, request_data, python_code, class_name, quality,
          video_urls, add_transitions, calls>>

vars == <<pc, args, elapsed, temp_dir, live, files, cmd, proc, video_files,
          video_file, written, raised, endpoint_raised, events, result, response,
          escaped>>

\* ----------------------------------------------------------------- helpers
NoDict == [k \in {} |-> ""]
NoProc == [returncode |-> 0, stdout |-> "", stderr |-> ""]
NoFiles == [p \in {} |-> 0]

TextFile(lines) == [kind |-> "text", text |-> lines, bytes |-> <<>>]
BinFile(b) == [kind |-> "bin", text |-> <<>>, bytes |-> b]

Event(op, arg) == [op |-> op, arg |-> arg]

\* str(temp_path) and str(temp_path / name)
TempPath(d) == "/tmp/tmp" \o ToString(d)
StrPath(d, p) ==
  LET RECURSIVE Join(_, _)
      Join(acc, k) == IF k > Len(p) THEN acc ELSE Join(acc \o "/" \o p[k], k + 1)
  IN Join(TempPath(d), 1)

\* temp_path.glob("**/<name>"): every path whose last component is name
Glob(fs, name) == {p \in DOMAIN fs : p[Len(p)] = name}

\* dict.get(key, default)
Get(d, k, default) == IF k \in DOMAIN d THEN d[k] ELSE default

\* ---------------------------------------------------------- render pipeline
RenderFns == {"compile_manim_animation", "compile_manim_animation_inline"}

\* the quality flag; "IndexError" when quality[0] does not exist
QualityFlag(f, q) ==
  IF f = "compile_manim_animation"
  THEN IF q = "low_quality" THEN "-ql"
       ELSE IF q = "medium_quality" THEN "-qm"
       ELSE IF q = "high_quality" THEN "-qh"
       ELSE IF q = "" THEN "IndexError"
       ELSE IF q = "extreme" THEN "-qe"
       ELSE "-q?"
  ELSE IF q = "medium_quality" THEN "-qm"
       ELSE IF q = "high_quality" THEN "-qh"
       ELSE "-ql"

ManimCmd(d, cls, flag) ==
  <<"manim", StrPath(d, <<"animation.py">>), cls, flag,
    "--disable_caching", "--output_file", "output", "--media_dir", TempPath(d)>>

\* what the renderer may leave in the media directory
CanonicalPath == <<"videos", "animation", "480p15", "output.mp4">>
ClassPath(cls) == <<"videos", "animation", "480p15", cls \o ".mp4">>
OtherPath == <<"images", "animation", "frame.png">>
ClassBytes == <<8, 8>>
OtherBytes == <<9>>

RenderedFiles(cls) ==
  LET Opt(p, B) == {NoFiles} \cup {p :> BinFile(b) : b \in B}
  IN {a @@ c @@ d :
        a \in Opt(CanonicalPath, Contents),
        c \in Opt(ClassPath(cls), {ClassBytes}), d \in Opt(OtherPath, {OtherBytes})}

\* the except clauses of a pipeline function
TimedOut(f, dur) ==
  IF f \in RenderFns
  THEN [success |-> FALSE, error |-> "Compilation timed out",
        logs |-> "Manim compilation exceeded timeout limit", duration |-> dur]
  ELSE [success |-> FALSE, error |-> "FFmpeg merge timed out", duration |-> dur]

Unexpected(f, msg, dur) ==
  IF f = "compile_manim_animation"
  THEN [success |-> FALSE, error |-> "Unexpected error: " \o msg,
        logs |-> "Exception occurred: " \o msg, duration |-> dur]
  ELSE IF f = "compile_manim_animation_inline"
  THEN [success |-> FALSE, error |-> "Inline compilation error: " \o msg,
        duration |-> dur]
  ELSE [success |-> FALSE, error |-> "Merge error: " \o msg, duration |-> dur]

\* does the function's try statement have a clause for this exception
CatchesOnlyTimeout(f, kind) == kind = "TimeoutExpired"
Catches(f, kind) == kind \in {"TimeoutExpired", "Exception"}

\* the clause that handles it: TimeoutExpired is tested before Exception
ExceptGenericFirst(f, kind, msg, dur) == Unexpected(f, msg, dur)
Except(f, kind, msg, dur) ==
  IF kind = "TimeoutExpired" THEN TimedOut(f, dur) ELSE Unexpected(f, msg, dur)

\* result when the subprocess exits non-zero
SubprocessFailedStderrFirst(f, p, dur) ==
  [success |-> FALSE,
   error |-> (IF f \in RenderFns THEN "Manim compilation failed: "
              ELSE "FFmpeg merge failed: ") \o p.stderr,
   logs |-> p.stderr \o p.stdout, duration |-> dur]
SubprocessFailed(f, p, dur) ==
  [success |-> FALSE,
   error |-> (IF f \in RenderFns THEN "Manim compilation failed: "
              ELSE "FFmpeg merge failed: ") \o p.stderr,
   logs |-> p.stdout \o p.stderr, duration |-> dur]

\* result when neither glob finds a file
RECURSIVE FileList(_, _)
FileList(d, ps) ==
  IF ps = {} THEN ""
  ELSE LET p == CHOOSE q \in ps : TRUE
       IN StrPath(d, p) \o (IF ps = {p} THEN "" ELSE "\n") \o FileList(d, ps \ {p})

VideoNotFound(f, d, fs, p, dur) ==
  [success |-> FALSE,
   error |-> IF f = "compile_manim_animation"
             THEN "Video file not found. Files created:\n" \o FileList(d, DOMAIN fs)
             ELSE "Video file not found after compilation",
   logs |-> p.stdout \o p.stderr, duration |-> dur]

RenderSucceeded(bytes, p, dur) ==
  [success |-> TRUE, video_bytes |-> bytes, logs |-> p.stdout, duration |-> dur]

\* the files the artifact is taken from: output.mp4 first, <class_name>.mp4 second
VideoFilesClassFirst(fs, cls) ==
  IF Glob(fs, cls \o ".mp4") # {} THEN Glob(fs, cls \o ".mp4")
  ELSE Glob(fs, "output.mp4")
VideoFiles(fs, cls) ==
  IF Glob(fs, "output.mp4") # {} THEN Glob(fs, "output.mp4")
  ELSE Glob(fs, cls \o ".mp4")

\* ------------------------------------------------------------------- Init
Init ==
  /\ pc = "idle"
  /\ endpoint = "none"
  /\ fn = "none"
  /\ request_data = NoDict
  /\ python_code = ""
  /\ class_name = "Scene"
  /\ quality = "low_quality"
  /\ video_urls = <<>>
  /\ add_transitions = FALSE
  /\ elapsed = 0
  /\ calls = 0
  /\ temp_dir = 0
  /\ live = {}
  /\ files = NoFiles
  /\ cmd = <<>>
  /\ proc = NoProc
  /\ video_files = <<>>
  /\ video_file = <<>>
  /\ written = NoFiles
  /\ raised = "none"
  /\ endpoint_raised = FALSE
  /\ events = <<>>
  /\ result = NoDict
  /\ response = NoDict
  /\ escaped = FALSE

\* state of a call that has just been entered
Enter(e, f, rd) ==
  /\ pc = "idle"
  /\ calls < MaxCalls
  /\ calls' = calls + 1
  /\ endpoint' = e
  /\ fn' = f
  /\ request_data' = rd
  /\ elapsed' = 0
  /\ temp_dir' = 0
  /\ files' = NoFiles
  /\ cmd' = <<>>
  /\ proc' = NoProc
  /\ video_files' = <<>>
  /\ video_file' = <<>>
  /\ written' = NoFiles
  /\ raised' = "none"
  /\ endpoint_raised' = FALSE
  /\ events' = <<>>
  /\ result' = NoDict
  /\ UNCHANGED <<live, escaped>>

EnterRender(e, f, rd, code, cls, q) ==
  /\ Enter(e, f, rd)
  /\ python_code' = code
  /\ class_name' = cls
  /\ quality' = q
  /\ response' = NoDict
  /\ pc' = "mkdtemp"
  /\ UNCHANGED <<video_urls, add_transitions>>

\* a pipeline function returns res: the with block removes the directory
ReturnNoCleanup(res, evs) ==
  /\ result' = res
  /\ live' = live
  /\ files' = files
  /\ events' = evs
  /\ pc' = IF endpoint = "none" THEN "done" ELSE "adapt"
Return(res, evs) ==
  /\ result' = res
  /\ live' = live \ {temp_dir}
  /\ files' = NoFiles
  /\ events' = IF temp_dir \in live
               THEN Append(evs, Event("rmtree", <<TempPath(temp_dir)>>))
               ELSE evs
  /\ pc' = IF endpoint = "none" THEN "done" ELSE "adapt"

\* an exception of this kind is raised inside a pipeline function
Throw(kind, msg, evs, dur) ==
  /\ raised' = kind
  /\ IF Catches(fn, kind)
     THEN /\ Return(Except(fn, kind, msg, dur), evs)
          /\ UNCHANGED escaped
     ELSE /\ escaped' = TRUE
          /\ pc' = "crashed"
          /\ live' = live \ {temp_dir}
          /\ files' = NoFiles
          /\ events' = evs
          /\ UNCHANGED result

\* the platform stops a function that has run for timeout=300 seconds: the
\* container is terminated where it stands, nothing is returned
Overruns(d) == elapsed + d >= FunctionTimeout
Kill(evs) ==
  /\ pc' = "killed"
  /\ elapsed' = FunctionTimeout
  /\ events' = evs
  /\ UNCHANGED <<live, files, raised, result, escaped>>

\* ------------------------------------------------- compile_manim_animation
compile_manim_animation ==
  \E code \in Codes \ {""}, cls \in ClassNames, q \in Qualities :
    EnterRender("none", "compile_manim_animation", NoDict, code, cls, q)

compile_manim_animation_inline ==
  \E code \in Codes \ {""}, cls \in ClassNames, q \in Qualities :
    EnterRender("none", "compile_manim_animation_inline", NoDict, code, cls, q)

\* with tempfile.TemporaryDirectory() as temp_dir
Mkdtemp ==
  /\ pc = "mkdtemp"
  /\ temp_dir' = calls
  /\ live' = live \cup {calls}
  /\ files' = NoFiles
  /\ events' = Append(events, Event("mkdtemp", <<TempPath(calls)>>))
  /\ pc' = IF fn \in RenderFns THEN "write_source" ELSE "download"
  /\ UNCHANGED <<args, elapsed, cmd, proc, video_files, video_file, written,
                 raised, result, response,
                 endpoint_raised, escaped>>

\* write animation.py, choose the quality flag, build the command
WriteSource ==
  /\ pc = "write_source"
  /\ LET evs == Append(events, Event("write", <<StrPath(temp_dir, <<"animation.py">>)>>))
         flag == QualityFlag(fn, quality)
     IN IF flag = "IndexError"
        THEN /\ Throw("Exception", "string index out of range", evs, elapsed)
             /\ UNCHANGED cmd
        ELSE /\ files' = (<<"animation.py">> :> TextFile(<<python_code>>))
             /\ cmd' = ManimCmd(temp_dir, class_name, flag)
             /\ events' = evs
             /\ pc' = "run"
             /\ UNCHANGED <<live, raised, result, escaped>>
  /\ UNCHANGED <<args, elapsed, temp_dir, proc, video_files, video_file, written,
                 response,
                 endpoint_raised>>

\* subprocess.run(cmd, ..., timeout=240) of the renderer
RunManim ==
  /\ pc = "run"
  /\ fn \in RenderFns
  /\ LET evs == Append(events, Event("run", cmd))
     IN \/ \* the renderer is still running after 240 s
           /\ IF Overruns(SubprocessTimeout)
              THEN Kill(evs)
              ELSE /\ elapsed' = elapsed + SubprocessTimeout
                   /\ Throw("TimeoutExpired", "", evs, elapsed + SubprocessTimeout)
           /\ UNCHANGED <<proc, written>>
        \/ \* the renderer exits
           /\ elapsed' = elapsed + 1
           /\ \E rc \in {0, 1}, out \in Stdouts, err \in Stderrs,
                 fs \in RenderedFiles(class_name) :
                /\ proc' = [returncode |-> rc, stdout |-> out, stderr |-> err]
                /\ files' = fs @@ files
                /\ written' = fs
           /\ events' = evs
           /\ pc' = "locate"
           /\ UNCHANGED <<live, raised, result, escaped>>
  /\ UNCHANGED <<args, temp_dir, cmd, video_files, video_file, response,
                 endpoint_raised>>

\* the return-code test and the two globs
Locate ==
  /\ pc = "locate"
  /\ IF proc.returncode # 0
     THEN /\ Return(SubprocessFailed(fn, proc, elapsed), events)
          /\ UNCHANGED video_file
     ELSE LET globbed == Append(events, Event("glob", <<"**/output.mp4">>))
              evs == IF Glob(files, "output.mp4") # {} THEN globbed
                     ELSE Append(globbed, Event("glob", <<"**/" \o class_name \o ".mp4">>))
          IN IF VideoFiles(files, class_name) = {}
             THEN /\ Return(VideoNotFound(fn, temp_dir, files, proc, elapsed),
                            IF fn = "compile_manim_animation"
                            THEN Append(evs, Event("rglob", <<"*">>)) ELSE evs)
                  /\ UNCHANGED video_file
             ELSE /\ \E p \in VideoFiles(files, class_name) : video_file' = p
                  /\ events' = evs
                  /\ pc' = "read_video"
                  /\ UNCHANGED <<live, files, result>>
  /\ UNCHANGED <<args, elapsed, temp_dir, cmd, proc, video_files, written, raised,
                 response,
                 endpoint_raised, escaped>>

\* open(video_file, "rb").read() and the success return
ReadVideo ==
  /\ pc = "read_video"
  /\ Return(RenderSucceeded(files[video_file].bytes, proc, elapsed),
            Append(events, Event("read", <<StrPath(temp_dir, video_file)>>)))
  /\ UNCHANGED <<args, elapsed, temp_dir, cmd, proc, video_files, video_file,
                 written, raised, response,
                 endpoint_raised, escaped>>

\* ------------------------------------------------------ merge_scene_videos
SceneFile(i) == <<"scene_" \o ToString(i) \o ".mp4">>
OutputFile == <<"merged.mp4">>
ListFile == <<"concat_list.txt">>
TransitionDuration == "0.5"

\* the concat list: one line per downloaded file, in list order
ManifestReversed(d, vfs) ==
  [k \in 1..Len(vfs) |-> "file '" \o StrPath(d, vfs[Len(vfs) + 1 - k]) \o "'"]
Manifest(d, vfs) == [k \in 1..Len(vfs) |-> "file '" \o StrPath(d, vfs[k]) \o "'"]

ConcatCmd(d) ==
  <<"ffmpeg", "-f", "concat", "-safe", "0", "-i", StrPath(d, ListFile),
    "-c", "copy", StrPath(d, OutputFile)>>

\* the xfade stages for n files; stage k here is the code's i = k - 1
OutputStream(i, n) == IF i = n - 2 THEN "[v]" ELSE "[v" \o ToString(i) \o "]"
XfadeStages(n) ==
  [k \in 1..(n - 1) |->
     [current_stream |-> IF k = 1 THEN "[0:v]" ELSE OutputStream(k - 2, n),
      next_stream |-> "[" \o ToString(k) \o ":v]",
      offset |-> (k - 1) * 10,
      output_stream |-> OutputStream(k - 1, n)]]

FilterPart(st) ==
  st.current_stream \o st.next_stream \o "xfade=transition=fade:duration="
    \o TransitionDuration \o ":offset=" \o ToString(st.offset) \o st.output_stream

FilterComplex(n) ==
  LET RECURSIVE Join(_, _)
      Join(acc, k) ==
        IF k > n - 1 THEN acc
        ELSE Join(acc \o (IF k = 1 THEN "" ELSE ";") \o FilterPart(XfadeStages(n)[k]), k + 1)
  IN Join("", 1)

\* the command string of the crossfade branch after cmd.split()
XfadeCmd(d, vfs) ==
  LET RECURSIVE Inputs(_)
      Inputs(k) == IF k > Len(vfs) THEN <<>>
                   ELSE <<"-i", StrPath(d, vfs[k])>> \o Inputs(k + 1)
  IN <<"ffmpeg">> \o Inputs(1) \o
     <<"-filter_complex", "\"" \o FilterComplex(Len(vfs)) \o "\"", "-map", "\"[v]\"",
       "-c:v", "libx264", "-preset", "medium", "-crf", "23", StrPath(d, OutputFile)>>

NoVideos(dur) ==
  [success |-> FALSE, error |-> "No videos provided to merge", duration |-> dur]
SingleVideo(bytes, dur) ==
  [success |-> TRUE, video_bytes |-> bytes, duration |-> dur, scene_count |-> 1]
NotCreatedInLogs(p, dur) ==
  [success |-> FALSE, logs |-> "Merged video file not created", duration |-> dur]
NotCreated(p, dur) ==
  [success |-> FALSE, error |-> "Merged video file not created",
   logs |-> p.stdout, duration |-> dur]
MergeSucceeded(bytes, dur, n) ==
  [success |-> TRUE, video_bytes |-> bytes, duration |-> dur, scene_count |-> n]

\* the path a list of locations takes
MergePathNoEmptyTest(urls) == IF Len(urls) = 1 THEN "single" ELSE "mkdtemp"
MergePathNoSingle(urls) == IF Len(urls) = 0 THEN "empty" ELSE "mkdtemp"
MergePath(urls) ==
  IF Len(urls) = 0 THEN "empty"
  ELSE IF Len(urls) = 1 THEN "single"
  ELSE "mkdtemp"

EnterMerge(e, rd, urls, tr) ==
  /\ Enter(e, "merge_scene_videos", rd)
  /\ video_urls' = urls
  /\ add_transitions' = tr
  /\ response' = NoDict
  /\ pc' = "check_urls"
  /\ UNCHANGED <<python_code, class_name, quality>>

merge_scene_videos ==
  \E urls \in UrlLists, tr \in BOOLEAN : EnterMerge("none", NoDict, urls, tr)

\* the empty-list test and the choice of the single-video path
CheckUrls ==
  /\ pc = "check_urls"
  /\ IF MergePath(video_urls) = "empty"
     THEN Return(NoVideos(elapsed), events)
     ELSE /\ pc' = MergePath(video_urls)
          /\ UNCHANGED <<live, files, events, result>>
  /\ UNCHANGED <<args, elapsed, temp_dir, cmd, proc, video_files, video_file,
                 written, raised, response,
                 endpoint_raised, escaped>>

\* one location: download it and return its bytes
SingleDownload ==
  /\ pc = "single"
  /\ \E d \in DownloadSeconds :
       LET evs == Append(events, Event("urlopen", <<video_urls[1]>>))
       IN IF Overruns(d)
          THEN Kill(evs)
          ELSE /\ elapsed' = elapsed + d
               /\ Return(SingleVideo(Remote[video_urls[1]], elapsed + d), evs)
               /\ UNCHANGED <<raised, escaped>>
  /\ UNCHANGED <<args, temp_dir, cmd, proc, video_files, video_file, written,
                 response, endpoint_raised>>

\* one iteration of the download loop
Download ==
  /\ pc = "download"
  /\ LET i == Len(video_files)
         url == video_urls[i + 1]
     IN \E d \in DownloadSeconds :
          IF Overruns(d)
          THEN /\ Kill(Append(events, Event("urlopen", <<url>>)))
               /\ UNCHANGED video_files
          ELSE /\ files' = (SceneFile(i) :> BinFile(Remote[url])) @@ files
               /\ video_files' = Append(video_files, SceneFile(i))
               /\ events' = events \o <<Event("urlopen", <<url>>),
                                        Event("write", <<StrPath(temp_dir, SceneFile(i))>>)>>
               /\ pc' = IF i + 1 = Len(video_urls) THEN "build" ELSE "download"
               /\ elapsed' = elapsed + d
               /\ UNCHANGED <<live, raised, result, escaped>>
  /\ UNCHANGED <<args, temp_dir, cmd, proc, video_file, written, response,
                 endpoint_raised>>

\* build the FFmpeg command; the concat branch writes its list file first
BuildMerge ==
  /\ pc = "build"
  /\ IF add_transitions
     THEN /\ cmd' = XfadeCmd(temp_dir, video_files)
          /\ UNCHANGED <<files, events>>
     ELSE /\ files' = (ListFile :> TextFile(Manifest(temp_dir, video_files))) @@ files
          /\ events' = Append(events, Event("write", <<StrPath(temp_dir, ListFile)>>))
          /\ cmd' = ConcatCmd(temp_dir)
  /\ pc' = "run"
  /\ UNCHANGED <<args, elapsed, temp_dir, live, proc, video_files, video_file,
                 written, raised, result, response,
                 endpoint_raised, escaped>>

\* subprocess.run(cmd, ..., timeout=240) of FFmpeg
RunFfmpeg ==
  /\ pc = "run"
  /\ fn = "merge_scene_videos"
  /\ LET evs == Append(events, Event("run", cmd))
     IN \/ \* FFmpeg is still running after 240 s
           /\ IF Overruns(SubprocessTimeout)
              THEN Kill(evs)
              ELSE /\ elapsed' = elapsed + SubprocessTimeout
                   /\ Throw("TimeoutExpired", "", evs, elapsed + SubprocessTimeout)
           /\ UNCHANGED <<proc, written>>
        \/ /\ elapsed' = elapsed + 1
           /\ \E rc \in {0, 1}, out \in Stdouts, err \in Stderrs,
                 fs \in {NoFiles} \cup {OutputFile :> BinFile(b) : b \in Contents} :
                /\ proc' = [returncode |-> rc, stdout |-> out, stderr |-> err]
                /\ files' = fs @@ files
                /\ written' = fs
           /\ events' = evs
           /\ pc' = "check_output"
           /\ UNCHANGED <<live, raised, result, escaped>>
  /\ UNCHANGED <<args, temp_dir, cmd, video_files, video_file, response,
                 endpoint_raised>>

\* the return-code test and output_file.exists()
CheckOutput ==
  /\ pc = "check_output"
  /\ IF proc.returncode # 0
     THEN /\ Return(SubprocessFailed(fn, proc, elapsed), events)
          /\ UNCHANGED video_file
     ELSE IF OutputFile \notin DOMAIN files
     THEN /\ Return(NotCreated(proc, elapsed), Append(events, Event("exists", OutputFile)))
          /\ UNCHANGED video_file
     ELSE /\ video_file' = OutputFile
          /\ events' = Append(events, Event("exists", OutputFile))
          /\ pc' = "read_merged"
          /\ UNCHANGED <<live, files, result>>
  /\ UNCHANGED <<args, elapsed, temp_dir, cmd, proc, video_files, written, raised,
                 response,
                 endpoint_raised, escaped>>

\* open(output_file, 'rb').read() and the success return
ReadMerged ==
  /\ pc = "read_merged"
  /\ Return(MergeSucceeded(files[OutputFile].bytes, elapsed, Len(video_urls)),
            Append(events, Event("read", <<StrPath(temp_dir, OutputFile)>>)))
  /\ UNCHANGED <<args, elapsed, temp_dir, cmd, proc, video_files, video_file,
                 written, raised, response,
                 endpoint_raised, escaped>>

\* any other exception, at any step inside the try statement that can raise
\* one: between a non-zero exit and its return, and before the list tests,
\* only print, len and time.time() run
InTry == {"mkdtemp", "write_source", "run", "locate", "read_video",
          "check_urls", "single", "download", "build", "check_output", "read_merged"}
CanRaise ==
  /\ pc \in InTry \ {"check_urls"}
  /\ pc \in {"locate", "check_output"} => proc.returncode = 0

RaiseKeepsClips ==
  /\ CanRaise
  /\ IF pc = "download"
     THEN /\ raised' = "Exception"
          /\ pc' = "build"
          /\ UNCHANGED <<live, files, events, result, escaped>>
     ELSE \E msg \in ExcMessages : Throw("Exception", msg, events, elapsed)
  /\ UNCHANGED <<args, elapsed, temp_dir, cmd, proc, video_files, video_file,
                 written, response, endpoint_raised>>
Raise ==
  /\ CanRaise
  /\ \E msg \in ExcMessages : Throw("Exception", msg, events, elapsed)
  /\ UNCHANGED <<args, elapsed, temp_dir, cmd, proc, video_files, video_file,
                 written, response,
                 endpoint_raised>>

\* ------------------------------------------------------------ web endpoints
WebEndpoints == {"compile_manim_web_endpoint", "merge_videos_web_endpoint"}

\* base64.b64encode(...).decode('utf-8'): the text as a sequence of characters
Alphabet ==
  <<"A", "B", "C", "D", "E", "F", "G", "H", "I", "J", "K", "L", "M",
    "N", "O", "P", "Q", "R", "S", "T", "U", "V", "W", "X", "Y", "Z",
    "a", "b", "c", "d", "e", "f", "g", "h", "i", "j", "k", "l", "m",
    "n", "o", "p", "q", "r", "s", "t", "u", "v", "w", "x", "y", "z",
    "0", "1", "2", "3", "4", "5", "6", "7", "8", "9", "+", "/">>

RECURSIVE b64encode(_)
b64encode(b) ==
  IF Len(b) = 0 THEN <<>>
  ELSE LET n == Len(b)
           v == b[1] * 65536 + (IF n >= 2 THEN b[2] ELSE 0) * 256
                  + (IF n >= 3 THEN b[3] ELSE 0)
       IN <<Alphabet[(v \div 262144) + 1],
            Alphabet[((v \div 4096) % 64) + 1],
            IF n >= 2 THEN Alphabet[((v \div 64) % 64) + 1] ELSE "=",
            IF n >= 3 THEN Alphabet[(v % 64) + 1] ELSE "=">>
          \o (IF n > 3 THEN b64encode(SubSeq(b, 4, n)) ELSE <<>>)

\* the JSON value of video_urls: a list of locations, or a string (items holds
\* the string, <<>> for the empty string)
JList(items) == [kind |-> "list", items |-> items]
JStr(items) == [kind |-> "str", items |-> items]
Truthy(v) == v.items # <<>>

CompileRequests ==
  LET Opt(key, V) == {NoDict} \cup {key :> v : v \in V}
  IN {a @@ b @@ c : a \in Opt("python_code", Codes), b \in Opt("class_name", {"Demo"}),
                    c \in Opt("quality", {"high_quality"})}

MergeRequests ==
  LET Vals == {JList(l) : l \in UrlLists} \cup {JStr(<<>>), JStr(<<"u1">>)}
  IN {NoDict} \cup {[video_urls |-> v] : v \in Vals}
       \cup {[video_urls |-> v, add_transitions |-> TRUE] : v \in Vals}

\* the test on video_urls: not empty, and a list
ValidUrlsNoTypeTest(v) == Truthy(v)
ValidUrls(v) == Truthy(v) /\ v.kind = "list"

\* the endpoint answers a malformed request itself
Reject(e, rd, msg) ==
  /\ Enter(e, "none", rd)
  /\ response' = [success |-> FALSE, error |-> msg]
  /\ pc' = "done"
  /\ UNCHANGED <<python_code, class_name, quality, video_urls, add_transitions>>

compile_manim_web_endpoint ==
  \E rd \in CompileRequests :
    LET code == Get(rd, "python_code", "")
        cls == Get(rd, "class_name", "Scene")
        q == Get(rd, "quality", "low_quality")
    IN IF code = ""
       THEN Reject("compile_manim_web_endpoint", rd, "python_code is required")
       ELSE EnterRender("compile_manim_web_endpoint", "compile_manim_animation_inline",
                        rd, code, cls, q)

merge_videos_web_endpoint ==
  \E rd \in MergeRequests :
    LET urls == Get(rd, "video_urls", JList(<<>>))
        tr == Get(rd, "add_transitions", FALSE)
    IN IF ~ValidUrls(urls)
       THEN Reject("merge_videos_web_endpoint", rd, "video_urls array is required")
       ELSE EnterMerge("merge_videos_web_endpoint", rd, urls.items, tr)

\* the result as the endpoint returns it
WebAdapt(r) ==
  IF r.success /\ "video_bytes" \in DOMAIN r /\ r.video_bytes # <<>>
  THEN [key \in (DOMAIN r \ {"video_bytes"}) \cup {"video_bytes_base64"} |->
          IF key = "video_bytes_base64" THEN b64encode(r.video_bytes) ELSE r[key]]
  ELSE r

Adapt ==
  /\ pc = "adapt"
  /\ response' = WebAdapt(result)
  /\ pc' = "done"
  /\ UNCHANGED <<endpoint_raised, args, elapsed, temp_dir, live, files, cmd, proc, video_files,
                 video_file, written, raised, events, result, escaped>>

\* the except clause of an endpoint
EndpointError(e, msg) ==
  [success |-> FALSE,
   error |-> (IF e = "compile_manim_web_endpoint" THEN "Web endpoint error: "
              ELSE "Merge endpoint error: ") \o msg]

\* an exception raised by the endpoint's own statements
EndpointRaise ==
  /\ pc = "adapt"
  /\ \E msg \in ExcMessages : response' = EndpointError(endpoint, msg)
  /\ endpoint_raised' = TRUE
  /\ pc' = "done"
  /\ UNCHANGED <<args, elapsed, temp_dir, live, files, cmd, proc, video_files,
                 video_file, written, raised, events, result, escaped>>

\* the caller takes the result and drops it, or the platform has replaced the
\* container it terminated; the next call may start
Finish ==
  /\ pc \in {"done", "killed"}
  /\ pc' = "idle"
  /\ endpoint' = "none"
  /\ fn' = "none"
  /\ request_data' = NoDict
  /\ python_code' = ""
  /\ class_name' = "Scene"
  /\ quality' = "low_quality"
  /\ video_urls' = <<>>
  /\ add_transitions' = FALSE
  /\ elapsed' = 0
  /\ temp_dir' = 0
  /\ cmd' = <<>>
  /\ proc' = NoProc
  /\ video_files' = <<>>
  /\ video_file' = <<>>
  /\ written' = NoFiles
  /\ raised' = "none"
  /\ endpoint_raised' = FALSE
  /\ events' = <<>>
  /\ result' = NoDict
  /\ response' = NoDict
  /\ live' = {}
  /\ files' = NoFiles
  /\ UNCHANGED <<calls, escaped>>

Next ==
  \/ compile_manim_animation
  \/ compile_manim_animation_inline
  \/ merge_scene_videos
  \/ compile_manim_web_endpoint
  \/ merge_videos_web_endpoint
  \/ Mkdtemp
  \/ WriteSource
  \/ RunManim
  \/ Locate
  \/ ReadVideo
  \/ CheckUrls
  \/ SingleDownload
  \/ Download
  \/ BuildMerge
  \/ RunFfmpeg
  \/ CheckOutput
  \/ ReadMerged
  \/ Raise
  \/ Adapt
  \/ EndpointRaise
  \/ Finish

Spec == Init /\ [][Next]_vars

\* ------------------------------------------------------------------ claims
\* the events of one kind, in order
RECURSIVE EventsOf(_, _)
EventsOf(evs, op) ==
  IF evs = <<>> THEN <<>>
  ELSE (IF Head(evs).op = op THEN <<Head(evs)>> ELSE <<>>) \o EventsOf(Tail(evs), op)
RunCount == Len(EventsOf(events, "run"))

\* the pipeline function has returned to its caller
Returned == pc \in {"adapt", "done"} /\ fn # "none"

\* C1: every call of a pipeline function or of a web endpoint ends with a
\* result that carries a boolean success flag, whatever failed on the way
\* (subprocess, download, missing file, timeout, any other exception); no
\* exception leaves the call.
C1_AlwaysResult ==
  /\ ~escaped
  /\ pc # "crashed"
  /\ Returned => "success" \in DOMAIN result /\ result.success \in BOOLEAN
  /\ (pc = "done" /\ endpoint \in WebEndpoints)
       => "success" \in DOMAIN response /\ response.success \in BOOLEAN

C1_Witness ==
  /\ pc = "done"
  /\ endpoint = "merge_videos_web_endpoint"
  /\ raised = "Exception"
  /\ Len(video_files) = 1
  /\ result.success = FALSE
  /\ response.success = FALSE

\* C2: when the renderer exits with a non-zero code the render pipeline
\* returns success = false, an error that is the failure prefix followed by
\* the captured stderr (so never empty), logs = stdout followed by stderr,
\* and it has made no glob, directory listing or file read.
C2_NonZeroExit ==
  (Returned /\ fn \in RenderFns /\ proc.returncode # 0)
    => /\ result.success = FALSE
       /\ result.error = "Manim compilation failed: " \o proc.stderr
       /\ Len(result.error) > 0
       /\ result.logs = proc.stdout \o proc.stderr
       /\ "video_bytes" \notin DOMAIN result
       /\ \A k \in 1..Len(events) : events[k].op \notin {"glob", "rglob", "read", "exists"}

C2_Witness ==
  /\ pc = "done"
  /\ fn = "compile_manim_animation_inline"
  /\ proc.returncode # 0
  /\ proc.stderr = "err"
  /\ CanonicalPath \in DOMAIN written
  /\ result.logs = "outerr"

\* C3: when the renderer exits zero and has written output.mp4 under the
\* directory, and no step raises, the render pipeline returns success = true,
\* video_bytes = the bytes of that file, logs = the captured stdout.
C3_CanonicalArtifact ==
  (Returned /\ fn \in RenderFns /\ raised = "none" /\ proc.returncode = 0
     /\ CanonicalPath \in DOMAIN written)
    => /\ result.success = TRUE
       /\ result.video_bytes = written[CanonicalPath].bytes
       /\ result.logs = proc.stdout
       /\ "error" \notin DOMAIN result

C3_Witness ==
  /\ pc = "done"
  /\ fn = "compile_manim_animation"
  /\ raised = "none"
  /\ CanonicalPath \in DOMAIN written
  /\ ClassPath(class_name) \in DOMAIN written
  /\ result.success
  /\ result.video_bytes = <<173, 0>>

\* C4: a merge of zero locations returns success = false, and the call opens
\* no location, creates no directory and runs no subprocess.
C4_EmptyMerge ==
  (fn = "merge_scene_videos" /\ Len(video_urls) = 0)
    => /\ events = <<>>
       /\ temp_dir = 0
       /\ live = {}
       /\ pc \in {"check_urls", "adapt", "done"}
       /\ Returned => result.success = FALSE

C4_Witness ==
  /\ pc = "done"
  /\ fn = "merge_scene_videos"
  /\ video_urls = <<>>
  /\ result.success = FALSE
  /\ result.error = "No videos provided to merge"

\* C5: a merge of exactly one location whose download succeeds returns
\* success = true, video_bytes = the bytes downloaded, scene_count = 1; the
\* call runs no subprocess and creates no directory.
C5_SingleMerge ==
  (fn = "merge_scene_videos" /\ Len(video_urls) = 1)
    => /\ RunCount = 0
       /\ temp_dir = 0
       /\ (Returned /\ raised = "none")
            => /\ result.success = TRUE
               /\ result.video_bytes = Remote[video_urls[1]]
               /\ result.scene_count = 1
               /\ EventsOf(events, "urlopen") = <<Event("urlopen", <<video_urls[1]>>)>>

C5_Witness ==
  /\ pc = "done"
  /\ fn = "merge_scene_videos"
  /\ video_urls = <<"u1">>
  /\ result.success
  /\ result.video_bytes = <<0, 173>>

\* C6: in a merge of N >= 2 locations without transitions FFmpeg is run once,
\* after the N downloads, which were made in list order; the concat list it
\* is given has N lines, line i naming scene_(i-1).mp4, and that file holds
\* the bytes of the i-th location.
C6_ConcatManifest ==
  (fn = "merge_scene_videos" /\ Len(video_urls) >= 2 /\ ~add_transitions)
    => /\ RunCount <= 1
       /\ \A j, k \in 1..Len(events) :
            (events[j].op = "run" /\ events[k].op \in {"urlopen", "write"}) => k < j
       /\ (Returned /\ raised \in {"none", "TimeoutExpired"}) => RunCount = 1
       /\ pc \in {"run", "check_output", "read_merged"}
            => /\ RunCount = (IF pc = "run" THEN 0 ELSE 1)
               /\ EventsOf(events, "urlopen")
                    = [k \in 1..Len(video_urls) |-> Event("urlopen", <<video_urls[k]>>)]
               /\ cmd[1] = "ffmpeg" /\ cmd[3] = "concat"
               /\ cmd[6] = "-i" /\ cmd[7] = TempPath(temp_dir) \o "/concat_list.txt"
               /\ ListFile \in DOMAIN files
               /\ Len(files[ListFile].text) = Len(video_urls)
               /\ \A k \in 1..Len(video_urls) :
                    /\ files[ListFile].text[k]
                         = "file '" \o TempPath(temp_dir) \o "/scene_"
                             \o ToString(k - 1) \o ".mp4'"
                    /\ <<"scene_" \o ToString(k - 1) \o ".mp4">> \in DOMAIN files
                    /\ files[<<"scene_" \o ToString(k - 1) \o ".mp4">>].bytes
                         = Remote[video_urls[k]]

C6_Witness ==
  /\ pc = "check_output"
  /\ fn = "merge_scene_videos"
  /\ ~add_transitions
  /\ video_urls = <<"u1", "u0", "u1">>
  /\ RunCount = 1
  /\ Len(files[ListFile].text) = 3

\* base64 decoding, as the receiver of a response does it
B64Index(ch) == IF ch = "=" THEN 0 ELSE (CHOOSE k \in 1..64 : Alphabet[k] = ch) - 1
RECURSIVE b64decode(_)
b64decode(t) ==
  IF Len(t) = 0 THEN <<>>
  ELSE LET v == B64Index(t[1]) * 262144 + B64Index(t[2]) * 4096
                  + B64Index(t[3]) * 64 + B64Index(t[4])
           three == <<v \div 65536, (v \div 256) % 256, v % 256>>
           n == IF t[3] = "=" THEN 1 ELSE IF t[4] = "=" THEN 2 ELSE 3
       IN SubSeq(three, 1, n) \o b64decode(SubSeq(t, 5, Len(t)))

\* the endpoint has answered a request it passed to the pipeline, and its own
\* statements raised nothing
Answered ==
  /\ pc = "done"
  /\ endpoint \in WebEndpoints
  /\ fn # "none"
  /\ ~endpoint_raised

\* C7: the response to a successful result (any artifact, the empty one
\* included) has video_bytes_base64, has no video_bytes, and has every other
\* field of the result unchanged; a failure result is the response as it is.
C7_WebAdaptation ==
  Answered =>
    IF result.success
    THEN /\ "video_bytes_base64" \in DOMAIN response
         /\ "video_bytes" \notin DOMAIN response
         /\ DOMAIN response \ {"video_bytes_base64"} = DOMAIN result \ {"video_bytes"}
         /\ \A key \in DOMAIN result \ {"video_bytes"} : response[key] = result[key]
    ELSE response = result

\* C8: decoding video_bytes_base64 of the response to a successful result
\* gives the artifact bytes the pipeline returned.
C8_Base64RoundTrip ==
  (Answered /\ result.success)
    => /\ "video_bytes_base64" \in DOMAIN response
       /\ b64decode(response.video_bytes_base64) = result.video_bytes

\* a request the endpoints must refuse
Malformed ==
  \/ /\ endpoint = "compile_manim_web_endpoint"
     /\ ("python_code" \notin DOMAIN request_data \/ request_data.python_code = "")
  \/ /\ endpoint = "merge_videos_web_endpoint"
     /\ \/ "video_urls" \notin DOMAIN request_data
        \/ request_data.video_urls.kind # "list"
        \/ request_data.video_urls.items = <<>>

\* C9: a compile request without python_code or with an empty one, and a
\* merge request whose video_urls is missing, empty or not a list, is answered
\* {success: false, error}; no pipeline function is entered, no directory is
\* created, nothing is downloaded, no subprocess runs.
C9_MalformedRequest ==
  Malformed
    => /\ fn = "none"
       /\ pc = "done"
       /\ events = <<>>
       /\ temp_dir = 0
       /\ live = {}
       /\ result = NoDict
       /\ DOMAIN response = {"success", "error"}
       /\ response.success = FALSE
       /\ response.error = (IF endpoint = "compile_manim_web_endpoint"
                            THEN "python_code is required"
                            ELSE "video_urls array is required")

C9_Witness ==
  /\ pc = "done"
  /\ endpoint = "merge_videos_web_endpoint"
  /\ "video_urls" \in DOMAIN request_data
  /\ request_data.video_urls = JStr(<<"u1">>)
  /\ response.success = FALSE

\* every error a pipeline function reports for something other than a timeout
OtherErrors(f) ==
  {SubprocessFailed(f, [returncode |-> 1, stdout |-> out, stderr |-> err], 0).error :
     out \in Stdouts, err \in Stderrs}
  \cup {Unexpected(f, msg, 0).error : msg \in ExcMessages \cup {"string index out of range"}}
  \cup {"Video file not found after compilation", "Merged video file not created",
        "No videos provided to merge"}

\* C10: when the renderer or FFmpeg runs past its time limit the pipeline
\* returns success = false with the timeout message of that pipeline, which is
\* no other error's message; and no call runs its subprocess more than once.
C10_Timeout ==
  /\ RunCount <= 1
  /\ (Returned /\ raised = "TimeoutExpired")
       => /\ RunCount = 1
          /\ elapsed >= SubprocessTimeout
          /\ result.success = FALSE
          /\ result.error = (IF fn \in RenderFns THEN "Compilation timed out"
                             ELSE "FFmpeg merge timed out")
          /\ result.error \notin OtherErrors(fn)
          /\ "video_bytes" \notin DOMAIN result
  /\ (Returned /\ raised # "TimeoutExpired")
       => result.success \/ result.error \notin {"Compilation timed out", "FFmpeg merge timed out"}

C10_Witness ==
  /\ pc = "done"
  /\ fn = "merge_scene_videos"
  /\ raised = "TimeoutExpired"
  /\ RunCount = 1
  /\ result.error = "FFmpeg merge timed out"

\* C11: the temporary directory a render or merge call created is gone when
\* the call has returned, on every path (success, non-zero exit, artifact not
\* found, timeout, other exception), its removal being the call's last
\* effect; and the only directory that exists while a call runs is the one
\* this call created, under a name no other call has.
C11_WorkspaceRemoved ==
  /\ live \subseteq {temp_dir}
  /\ temp_dir # 0
       => /\ temp_dir = calls
          /\ \E k \in 1..Len(events) : events[k] = Event("mkdtemp", <<TempPath(calls)>>)
          /\ \A k \in 1..Len(events) :
               events[k].op \in {"mkdtemp", "rmtree"} => events[k].arg = <<TempPath(calls)>>
  /\ pc \in {"adapt", "done", "idle"}
       => /\ live = {}
          /\ files = NoFiles
          /\ temp_dir # 0 => events[Len(events)] = Event("rmtree", <<TempPath(temp_dir)>>)

C11_Witness ==
  /\ pc = "done"
  /\ calls = 2
  /\ temp_dir = 2
  /\ fn \in RenderFns
  /\ raised = "TimeoutExpired"
  /\ live = {}
  /\ events[Len(events)].op = "rmtree"

\* C12: a result of a pipeline function has video_bytes exactly when success
\* is true and error exactly when success is false.
C12_BytesOrError ==
  Returned
    => /\ ("video_bytes" \in DOMAIN result) <=> result.success
       /\ ("error" \in DOMAIN result) <=> ~result.success

C12_Witness ==
  /\ pc = "done"
  /\ fn = "merge_scene_videos"
  /\ proc.returncode = 0
  /\ RunCount = 1
  /\ raised = "none"
  /\ result.success = FALSE
  /\ result.error = "Merged video file not created"

\* C13: every render or merge request returns a result: the subprocess limit
\* (240 s) is strictly shorter than the function limit (300 s), so a request
\* is never stopped by the function limit without a result, and every result
\* is returned before that limit.
C13_ResultBeforeLimit ==
  /\ SubprocessTimeout < FunctionTimeout
  /\ pc # "killed"
  /\ Returned => elapsed < FunctionTimeout

\* every order in which a directory listing can name the files ps
RECURSIVE Listings(_, _)
Listings(d, ps) ==
  IF ps = {} THEN {""}
  ELSE UNION {{StrPath(d, p) \o (IF ps = {p} THEN "" ELSE "\n") \o rest :
                 rest \in Listings(d, ps \ {p})} : p \in ps}

\* C14: after a zero-exit render the artifact is looked up under output.mp4
\* first; <class_name>.mp4 is looked up only when there is no output.mp4 and
\* is chosen only then; when neither exists the call fails with an error that
\* lists every file present in the workspace.
C14_ArtifactLookup ==
  (Returned /\ fn \in RenderFns /\ raised = "none" /\ proc.returncode = 0)
    => LET globs == EventsOf(events, "glob")
           present == {<<"animation.py">>} \cup DOMAIN written
       IN /\ Len(globs) >= 1
          /\ globs[1].arg = <<"**/output.mp4">>
          /\ IF CanonicalPath \in DOMAIN written
             THEN /\ Len(globs) = 1
                  /\ video_file = CanonicalPath
                  /\ result.success
                  /\ result.video_bytes = written[CanonicalPath].bytes
             ELSE /\ Len(globs) = 2
                  /\ globs[2].arg = <<"**/" \o class_name \o ".mp4">>
                  /\ IF ClassPath(class_name) \in DOMAIN written
                     THEN /\ video_file = ClassPath(class_name)
                          /\ result.success
                          /\ result.video_bytes = ClassBytes
                     ELSE /\ ~result.success
                          /\ result.error \in
                               {"Video file not found. Files created:\n" \o l :
                                  l \in Listings(temp_dir, present)}

\* the argument that follows option opt in an argument vector
ArgAfter(argv, opt) == argv[(CHOOSE k \in 1..Len(argv) : argv[k] = opt) + 1]

\* C15: a merge of N >= 2 clips with transitions runs FFmpeg with a filter
\* graph of N-1 crossfade stages in one chain (stage 0 takes inputs 0 and 1,
\* stage i > 0 the output of stage i-1 and input i+1), distinct output
\* labels, offset 10 * i at stage i, and only the last stage's output is
\* [v], the label the command maps to the output file.
C15_CrossfadeChain ==
  (pc = "run" /\ fn = "merge_scene_videos" /\ add_transitions)
    => LET n == Len(video_files)
           st == XfadeStages(n)
       IN /\ n >= 2
          /\ DOMAIN st = 1..(n - 1)
          /\ st[1].current_stream = "[0:v]"
          /\ \A k \in 1..(n - 1) : st[k].next_stream = "[" \o ToString(k) \o ":v]"
          /\ \A k \in 2..(n - 1) : st[k].current_stream = st[k - 1].output_stream
          /\ \A j, k \in 1..(n - 1) : j # k => st[j].output_stream # st[k].output_stream
          /\ \A k \in 1..(n - 1) : st[k].offset = (k - 1) * 10
          /\ \A k \in 1..(n - 1) : (st[k].output_stream = "[v]") <=> (k = n - 1)
          /\ ArgAfter(cmd, "-filter_complex") = FilterComplex(n)
          /\ ArgAfter(cmd, "-map") = "[v]"
          /\ cmd[Len(cmd)] = StrPath(temp_dir, OutputFile)

\* C16: low_quality, medium_quality and high_quality give -ql, -qm and -qh,
\* and for every quality a request carries compile_manim_animation and
\* compile_manim_animation_inline build the same renderer command: the same
\* flag, caching disabled, output name "output", media directory the
\* workspace.
C16_SameRendererCommand ==
  (fn \in RenderFns /\ pc \notin {"mkdtemp", "idle"})
    => /\ quality = "low_quality" => QualityFlag(fn, quality) = "-ql"
       /\ quality = "medium_quality" => QualityFlag(fn, quality) = "-qm"
       /\ quality = "high_quality" => QualityFlag(fn, quality) = "-qh"
       /\ \A f \in RenderFns :
            ManimCmd(temp_dir, class_name, QualityFlag(f, quality))
              = ManimCmd(temp_dir, class_name, QualityFlag(fn, quality))
       /\ pc = "run"
            => /\ cmd[4] = QualityFlag(fn, quality)
               /\ \E k \in 1..Len(cmd) : cmd[k] = "--disable_caching"
               /\ ArgAfter(cmd, "--output_file") = "output"
               /\ ArgAfter(cmd, "--media_dir") = TempPath(temp_dir)

\* C17: when the download of clip k of a merge of N >= 2 clips fails, the
\* call returns success = false with no video_bytes, only the clips before k
\* have been opened, FFmpeg has not been run and nothing has been merged.
C17_DownloadFailure ==
  (Returned /\ fn = "merge_scene_videos" /\ raised = "Exception"
     /\ temp_dir # 0 /\ Len(video_files) < Len(video_urls))
    => LET k == Len(video_files)
           opened == EventsOf(events, "urlopen")
       IN /\ Len(video_urls) >= 2
          /\ result.success = FALSE
          /\ "video_bytes" \notin DOMAIN result
          /\ result.error \in {"Merge error: " \o m : m \in ExcMessages}
          /\ Len(opened) = k
          /\ \A j \in 1..k : opened[j].arg = <<video_urls[j]>>
          /\ RunCount = 0
          /\ cmd = <<>>
          /\ written = NoFiles

C17_Witness ==
  /\ pc = "done"
  /\ fn = "merge_scene_videos"
  /\ raised = "Exception"
  /\ Len(video_urls) = 3
  /\ Len(video_files) = 1
  /\ RunCount = 0
  /\ result.success = FALSE
====
